---------------------------- MODULE Spec2Model ----------------------------
(***************************************************************************)
(* A model of engine/source/core/bitStream.cpp: the bit-packed stream      *)
(* (BitStream), its growth variants (ResizeBitStream, InfiniteBitStream),  *)
(* the shared packet stream and the Huffman string coder.                  *)
(*                                                                         *)
(* A stream is a record with the fields of the C++ object.  dataPtr is the *)
(* memory block the pointer designates: a sequence of bytes whose length   *)
(* is the number of bytes really allocated (C index i is element i+1).     *)
(* Every stream operation is an operator from a stream to a stream; the    *)
(* actions apply them to the variables.                                    *)
(***************************************************************************)
EXTENDS Integers, Sequences, FiniteSets, TLC

VARIABLES
    kind,          \* which object stream is: "fixed", "packet", "resize", "infinite"
    stream,        \* the BitStream under test
    mMinSpace,     \* ResizeBitStream::mMinSpace of that stream
    peer,          \* the stream of the reading peer (string transport)
    wScratch,      \* writer's stringBuffer (a byte sequence, or NoBuffer)
    rScratch,      \* reader's stringBuffer
    last,          \* the last operation: its name, arguments, results, pre-state
    nops,          \* number of operations performed so far
    g_huffProcessor \* HuffmanProcessor::g_huffProcessor

vars == <<kind, stream, mMinSpace, peer, wScratch, rScratch, last, nops, g_huffProcessor>>

-----------------------------------------------------------------------------
(* Bounds of the model *)

\* operations per behaviour
MaxOps == 2
\* largest bit count handed to writeBits / readBits / writeInt / readInt
MaxBitCount == 9
\* largest buffer size in bytes of a fixed stream
MaxBuf == 2
\* largest width of a signed integer
MaxWidth == 6
\* largest mMinSpace of a growing stream
MaxMinSpace == 2
\* largest upcomingBytes announced to InfiniteBitStream::validate
MaxUpcoming == 2

\* size of gPacketBuffer (platform/event.h gives 1500; scaled down)
MaxPacketDataSize == 2

-----------------------------------------------------------------------------
(* U8 / S32 arithmetic as the C code computes it *)

Pow2(n) == 2 ^ n

U8(x) == x % 256

\* x << s and x >> s on a byte promoted to int
Shl(x, s) == x * Pow2(s)
Shr(x, s) == x \div Pow2(s)

RECURSIVE BitAnd(_, _)
BitAnd(a, b) ==
    IF a = 0 \/ b = 0 THEN 0
    ELSE (a % 2) * (b % 2) + 2 * BitAnd(a \div 2, b \div 2)

RECURSIVE BitOr(_, _)
BitOr(a, b) ==
    IF a = 0 THEN b
    ELSE IF b = 0 THEN a
    ELSE (IF a % 2 = 1 \/ b % 2 = 1 THEN 1 ELSE 0) + 2 * BitOr(a \div 2, b \div 2)

\* ~x on a byte
BitNot8(x) == 255 - x

Min(a, b) == IF a < b THEN a ELSE b

\* the C array element p[i]
At(p, i) == p[i + 1]

\* bit i (LSB-first, little-endian bytes) of the byte sequence p
BitOf(p, i) == Shr(At(p, i \div 8), i % 8) % 2

\* convertHostToLEndian: the four bytes of an S32, low byte first (two's
\* complement; \div rounds down and % is non-negative)
LEBytes(val) ==
    << val % 256, (val \div 256) % 256, (val \div 65536) % 256, (val \div 16777216) % 256 >>

\* convertLEndianToHost: four little-endian bytes as an S32
LEValue(b) ==
    At(b, 0) + 256 * At(b, 1) + 65536 * At(b, 2)
      + 16777216 * (IF At(b, 3) >= 128 THEN At(b, 3) - 256 ELSE At(b, 3))

\* ret & ((1 << bitCount) - 1) on an S32, for bitCount < 32
MaskBits(ret, bitCount) ==
    IF bitCount = 31 THEN (IF ret < 0 THEN (ret + 2147483647) + 1 ELSE ret)
    ELSE ret % Pow2(bitCount)

-----------------------------------------------------------------------------
(* BitStream *)

\* BitStream::setBuffer(bufPtr, size, maxSize)
SetBuffer(s, bufPtr, size, maxSize) ==
    [ s EXCEPT !.dataPtr = bufPtr,
               !.bitNum = 0,
               !.bufSize = size,
               !.maxReadBitNum = size * 8,
               !.maxWriteBitNum = (IF maxSize < 0 THEN size ELSE maxSize) * 8,
               !.error = FALSE ]

\* BitStream::BitStream(bufPtr, size, maxSize): the constructor binds the buffer
NewBitStream(bufPtr, size, maxSize) ==
    SetBuffer([ dataPtr |-> << >>, bitNum |-> 0, bufSize |-> 0, maxReadBitNum |-> 0,
                maxWriteBitNum |-> 0, error |-> FALSE ], bufPtr, size, maxSize)

\* BitStream::getPosition
GetPosition(s) == (s.bitNum + 7) \div 8

SetPositionResetMutant(s, pos) == [ s EXCEPT !.bitNum = pos * 8, !.error = FALSE ]

\* BitStream::setPosition
SetPosition(s, pos) == [ s EXCEPT !.bitNum = pos * 8 ]

\* a store through dataPtr: a byte outside the allocated block is not part of
\* the buffer and leaves it as it is
Store(d, i, v) == IF i < Len(d) THEN [ d EXCEPT ![i + 1] = v ] ELSE d

\* a load through dataPtr: outside the allocated block the value is whatever
\* memory holds there (junk)
Load(d, i, junk) == IF i < Len(d) THEN d[i + 1] ELSE junk

WriteBitsByteNoStartMaskMutant(s, ptr, i) ==
    LET st        == s.bitNum \div 8
        upShift   == s.bitNum % 8
        downShift == 8 - upShift
    IN  IF i = st
        THEN U8(Shl(At(ptr, 0), upShift))
        ELSE U8(BitOr(Shr(At(ptr, i - st - 1), downShift), Shl(At(ptr, i - st), upShift)))

\* the bytes writeBits stores, before the final mask: byte i of the buffer
WriteBitsByte(s, ptr, i) ==
    LET st        == s.bitNum \div 8
        upShift   == s.bitNum % 8
        downShift == 8 - upShift
        startMask == Shr(255, downShift)
    IN  IF i = st
        THEN U8(BitOr(Shl(At(ptr, 0), upShift), BitAnd(At(s.dataPtr, st), startMask)))
        ELSE U8(BitOr(Shr(At(ptr, i - st - 1), downShift), Shl(At(ptr, i - st), upShift)))

WriteBitsNoMaskMutant(s, bitCount, ptr) ==
    IF bitCount = 0 THEN s
    ELSE IF bitCount + s.bitNum > s.maxWriteBitNum THEN [ s EXCEPT !.error = TRUE ]
    ELSE
        LET st  == s.bitNum \div 8
            end == (bitCount + s.bitNum - 1) \div 8
            d1  == [ i \in 1..Len(s.dataPtr) |->
                       IF st <= i - 1 /\ i - 1 <= end
                       THEN WriteBitsByte(s, ptr, i - 1) ELSE s.dataPtr[i] ]
        IN  [ s EXCEPT !.dataPtr = d1, !.bitNum = s.bitNum + bitCount ]

WriteBitsNoCheckMutant(s, bitCount, ptr) ==
    IF bitCount = 0 THEN s
    ELSE
        LET st       == s.bitNum \div 8
            end      == (bitCount + s.bitNum - 1) \div 8
            lastMask == Shr(255, 7 - ((s.bitNum + bitCount - 1) % 8))
            d1       == [ i \in 1..Len(s.dataPtr) |->
                            IF st <= i - 1 /\ i - 1 <= end
                            THEN WriteBitsByte(s, ptr, i - 1) ELSE s.dataPtr[i] ]
            d2       == Store(d1, end, BitAnd(Load(d1, end, 0), lastMask))
        IN  [ s EXCEPT !.dataPtr = d2, !.bitNum = s.bitNum + bitCount,
                       !.error = (bitCount + s.bitNum > s.maxWriteBitNum) \/ s.error ]

\* BitStream::writeBits(bitCount, bitPtr); ptr is the memory at bitPtr
WriteBits(s, bitCount, ptr) ==
    IF bitCount = 0 THEN s
    ELSE IF bitCount + s.bitNum > s.maxWriteBitNum THEN [ s EXCEPT !.error = TRUE ]
    ELSE
        LET st       == s.bitNum \div 8
            end      == (bitCount + s.bitNum - 1) \div 8
            lastMask == Shr(255, 7 - ((s.bitNum + bitCount - 1) % 8))
            \* *stPtr = ...; while (stPtr <= endPtr) *stPtr++ = ...
            d1       == [ i \in 1..Len(s.dataPtr) |->
                            IF st <= i - 1 /\ i - 1 <= end
                            THEN WriteBitsByte(s, ptr, i - 1) ELSE s.dataPtr[i] ]
            \* *endPtr &= lastMask
            d2       == Store(d1, end, BitAnd(Load(d1, end, 0), lastMask))
        IN  [ s EXCEPT !.dataPtr = d2, !.bitNum = s.bitNum + bitCount ]

\* BitStream::setBit(bitCount, set)
SetBit(s, bitCount, set) ==
    LET i == bitCount \div 8
        m == Shl(1, bitCount % 8)
        b == Load(s.dataPtr, i, 0)
    IN  [ s EXCEPT !.dataPtr =
            Store(s.dataPtr, i, IF set THEN BitOr(b, m) ELSE BitAnd(b, BitNot8(m))) ]

\* BitStream::testBit(bitCount)
TestBit(s, bitCount, junk) ==
    BitAnd(Load(s.dataPtr, bitCount \div 8, junk), Shl(1, bitCount % 8)) # 0

\* BitStream::writeFlag(val): the stream afterwards
WriteFlag(s, val) ==
    IF s.bitNum + 1 > s.maxWriteBitNum THEN [ s EXCEPT !.error = TRUE ]
    ELSE [ SetBit(s, s.bitNum, val) EXCEPT !.bitNum = s.bitNum + 1 ]

\* BitStream::writeFlag(val): the value returned
WriteFlagRet(s, val) ==
    IF s.bitNum + 1 > s.maxWriteBitNum THEN FALSE ELSE val

ReadBitsAdvanceMutant(s, bitCount, dst, junk) ==
    IF bitCount = 0 THEN [ s |-> s, dst |-> dst ]
    ELSE IF bitCount + s.bitNum > s.maxReadBitNum
    THEN [ s |-> [ s EXCEPT !.error = TRUE, !.bitNum = s.bitNum + bitCount ], dst |-> dst ]
    ELSE [ s |-> [ s EXCEPT !.bitNum = s.bitNum + bitCount ], dst |-> dst ]

ReadBitsZeroFillMutant(s, bitCount, dst, junk) ==
    IF bitCount = 0 THEN [ s |-> s, dst |-> dst ]
    ELSE IF bitCount + s.bitNum > s.maxReadBitNum
    THEN [ s |-> [ s EXCEPT !.error = TRUE ],
           dst |-> [ k \in 1..Len(dst) |-> IF k <= (bitCount + 7) \div 8 THEN 0 ELSE dst[k] ] ]
    ELSE
        LET st        == s.bitNum \div 8
            byteCount == (bitCount + 7) \div 8
            downShift == s.bitNum % 8
            upShift   == 8 - downShift
            out       == [ k \in 1..Len(dst) |->
                             IF k <= byteCount
                             THEN U8(BitOr(Shr(Load(s.dataPtr, st + k - 1, junk), downShift),
                                           Shl(Load(s.dataPtr, st + k, junk), upShift)))
                             ELSE dst[k] ]
        IN  [ s |-> [ s EXCEPT !.bitNum = s.bitNum + bitCount ], dst |-> out ]

\* BitStream::readBits(bitCount, bitPtr): dst is the memory at bitPtr before the
\* call; the result is the stream and that memory afterwards
ReadBits(s, bitCount, dst, junk) ==
    IF bitCount = 0 THEN [ s |-> s, dst |-> dst ]
    ELSE IF bitCount + s.bitNum > s.maxReadBitNum
    THEN [ s |-> [ s EXCEPT !.error = TRUE ], dst |-> dst ]
    ELSE
        LET st        == s.bitNum \div 8
            byteCount == (bitCount + 7) \div 8
            downShift == s.bitNum % 8
            upShift   == 8 - downShift
            out       == [ k \in 1..Len(dst) |->
                             IF k <= byteCount
                             THEN U8(BitOr(Shr(Load(s.dataPtr, st + k - 1, junk), downShift),
                                           Shl(Load(s.dataPtr, st + k, junk), upShift)))
                             ELSE dst[k] ]
        IN  [ s |-> [ s EXCEPT !.bitNum = s.bitNum + bitCount ], dst |-> out ]

\* the highest buffer index readBits loads from (*++stPtr in the last round)
ReadBitsLastLoad(s, bitCount) == s.bitNum \div 8 + (bitCount + 7) \div 8

\* BitStream::readFlag (declared inline in bitStream.h): a single-bit read
ReadFlag(s, junk) ==
    IF s.bitNum + 1 > s.maxReadBitNum
    THEN [ s |-> [ s EXCEPT !.error = TRUE ], ret |-> FALSE ]
    ELSE [ s |-> [ s EXCEPT !.bitNum = s.bitNum + 1 ], ret |-> TestBit(s, s.bitNum, junk) ]

\* BitStream::readInt(bitCount)
ReadInt(s, bitCount, junk) ==
    LET r   == ReadBits(s, bitCount, << 0, 0, 0, 0 >>, junk)
        ret == LEValue(r.dst)
    IN  [ s |-> r.s,
          ret |-> IF bitCount = 32 THEN ret ELSE MaskBits(ret, bitCount) ]

\* BitStream::writeInt(val, bitCount)
WriteInt(s, val, bitCount) == WriteBits(s, bitCount, LEBytes(val))


-----------------------------------------------------------------------------
(* Inputs *)

\* bit counts handed to the bit-level operations
BitCounts == 0..MaxBitCount

\* memory at the source pointer of writeBits: the bytes written, followed by
\* whatever lies behind them
Srcs == { << 165, 60, 255 >> }

\* values and bit counts handed to writeInt, bit counts handed to readInt
IntVals == { 421 }
IntBitCounts == { 1, 5, MaxBitCount }

\* what a load outside the allocated block can yield
JunkBytes == { 0, 255 }

\* content of a buffer handed to a stream: fresh, all ones, mixed
Fills == { 0, 255, 165 }

\* content of freshly allocated memory
HeapFills == { 0, 255 }

Filled(size, fill) == [ i \in 1..size |-> IF fill = 165 /\ i % 2 = 0 THEN 60 ELSE fill ]

\* memory at the destination pointer of readBits before the call
Dst0 == << 170, 170, 170 >>

NoStream == [ dataPtr |-> << >>, bitNum |-> 0, bufSize |-> 0, maxReadBitNum |-> 0,
              maxWriteBitNum |-> 0, error |-> FALSE ]

NoBuffer == << -1 >>

\* HuffmanProcessor() : m_tablesBuilt(false), the two vectors empty
NewHuffmanProcessor ==
    [ m_tablesBuilt |-> FALSE, m_huffNodes |-> << >>, m_huffLeaves |-> << >> ]

NoOp == [ op |-> "init", n |-> 0, val |-> 0, src |-> << >>, pre |-> NoStream,
          dst |-> << >>, ret |-> 0, junk |-> 0 ]

\* the junk values that matter for a load up to buffer index hi
JunkFor(s, hi) == IF hi >= Len(s.dataPtr) THEN JunkBytes ELSE { 0 }

-----------------------------------------------------------------------------
(* The fixed stream and the shared packet stream *)

\* static BitStream gPacketStream(NULL, 0): maxSize defaults to -1
InitPacket ==
    /\ kind = "packet"
    /\ stream = NewBitStream(<< >>, 0, -1)

\* BitStream(bufPtr, size, maxSize) over a caller's buffer
InitFixed ==
    /\ kind = "fixed"
    /\ \E size \in 1..MaxBuf, fill \in Fills :
          stream = NewBitStream(Filled(size, fill), size, -1)

Idle ==
    /\ mMinSpace = 0
    /\ peer = NoStream
    /\ wScratch = NoBuffer
    /\ rScratch = NoBuffer
    /\ last = NoOp
    /\ nops = 0
    /\ g_huffProcessor = NewHuffmanProcessor

Init == (InitPacket \/ InitFixed) /\ Idle

Step(s, l) ==
    /\ nops < MaxOps
    /\ nops' = nops + 1
    /\ stream' = s
    /\ last' = [ l EXCEPT !.pre = stream ]
    /\ UNCHANGED <<kind, mMinSpace, peer, wScratch, rScratch, g_huffProcessor>>

\* gPacketBuffer: static storage, zero at start, then what the last packet left
PacketBuffer(s) ==
    IF Len(s.dataPtr) = 0 THEN Filled(MaxPacketDataSize, 0) ELSE s.dataPtr

GetPacketStreamCeilingMutant(s, writeSize) ==
    LET ws == IF writeSize = 0 THEN MaxPacketDataSize ELSE writeSize
    IN  SetPosition(SetBuffer(s, PacketBuffer(s), ws, ws), 0)

\* BitStream::getPacketStream(writeSize)
GetPacketStream(s, writeSize) ==
    LET ws == IF writeSize = 0 THEN MaxPacketDataSize ELSE writeSize
    IN  SetPosition(SetBuffer(s, PacketBuffer(s), ws, MaxPacketDataSize), 0)

DoGetPacketStream ==
    /\ kind = "packet"
    /\ \E writeSize \in 0..MaxPacketDataSize :
          Step(GetPacketStream(stream, writeSize),
               [ NoOp EXCEPT !.op = "getPacketStream", !.n = writeSize ])

\* setBuffer on a caller's buffer of max(size, maxSize) bytes
DoSetBuffer ==
    /\ kind = "fixed"
    /\ \E size \in 1..MaxBuf, fill \in HeapFills :
        \E maxSize \in { -1, size + 1 } :
          Step(SetBuffer(stream, Filled(IF maxSize > size THEN maxSize ELSE size, fill),
                         size, maxSize),
               [ NoOp EXCEPT !.op = "setBuffer", !.n = size, !.val = maxSize ])

DoSetPosition ==
    \E pos \in 0..MaxBuf :
        Step(SetPosition(stream, pos), [ NoOp EXCEPT !.op = "setPosition", !.n = pos ])

DoWriteBits ==
    \E n \in BitCounts, src \in Srcs :
        Step(WriteBits(stream, n, src), [ NoOp EXCEPT !.op = "writeBits", !.n = n, !.src = src ])

DoWriteInt ==
    \E n \in IntBitCounts, val \in IntVals :
        Step(WriteInt(stream, val, n),
             [ NoOp EXCEPT !.op = "writeInt", !.n = n, !.val = val, !.src = LEBytes(val) ])

DoWriteFlag ==
    \E val \in BOOLEAN :
        Step(WriteFlag(stream, val),
             [ NoOp EXCEPT !.op = "writeFlag", !.n = 1, !.val = IF val THEN 1 ELSE 0,
                           !.src = << IF val THEN 1 ELSE 0 >>,
                           !.ret = IF WriteFlagRet(stream, val) THEN 1 ELSE 0 ])

DoReadBits ==
    \E n \in BitCounts :
      \E junk \in JunkFor(stream, ReadBitsLastLoad(stream, n)) :
        LET r == ReadBits(stream, n, Dst0, junk)
        IN  Step(r.s, [ NoOp EXCEPT !.op = "readBits", !.n = n, !.dst = r.dst, !.junk = junk ])

DoReadInt ==
    \E n \in IntBitCounts :
      \E junk \in JunkFor(stream, ReadBitsLastLoad(stream, n)) :
        LET r == ReadInt(stream, n, junk)
        IN  Step(r.s, [ NoOp EXCEPT !.op = "readInt", !.n = n, !.ret = r.ret, !.junk = junk ])

DoReadFlag ==
    \E junk \in JunkFor(stream, stream.bitNum \div 8) :
        LET r == ReadFlag(stream, junk)
        IN  Step(r.s, [ NoOp EXCEPT !.op = "readFlag", !.n = 1,
                                   !.ret = IF r.ret THEN 1 ELSE 0, !.junk = junk ])

Next ==
    \/ DoGetPacketStream
    \/ DoSetBuffer
    \/ DoSetPosition
    \/ DoWriteBits
    \/ DoWriteInt
    \/ DoWriteFlag
    \/ DoReadBits
    \/ DoReadInt
    \/ DoReadFlag

Spec == Init /\ [][Next]_vars


-----------------------------------------------------------------------------
(* Properties of the bit-level operations (specification Spec) *)

Pre == last.pre

IsWriteBits == last.op \in { "writeBits", "writeInt" }
IsReadBits  == last.op \in { "readBits", "readInt" }

\* the last operation was a write past max_write_bits
OverWrite ==
    \/ IsWriteBits /\ last.n >= 1 /\ Pre.bitNum + last.n > Pre.maxWriteBitNum
    \/ last.op = "writeFlag" /\ Pre.bitNum + 1 > Pre.maxWriteBitNum

\* the last operation was a write of n >= 1 bits that fits
GoodWriteBits == IsWriteBits /\ last.n >= 1 /\ Pre.bitNum + last.n <= Pre.maxWriteBitNum

GoodWriteFlag == last.op = "writeFlag" /\ Pre.bitNum + 1 <= Pre.maxWriteBitNum

\* the last operation was a read past max_read_bits
OverRead == IsReadBits /\ last.n >= 1 /\ Pre.bitNum + last.n > Pre.maxReadBitNum

\* the bits of the touched final byte from the cursor up to the byte boundary
TailBits(s) == { b \in s.bitNum .. (8 * GetPosition(s) - 1) : b < 8 * Len(s.dataPtr) }

\* C1: a writeBits / writeInt of n >= 1 bits, or a writeFlag, that would pass
\* max_write_bits sets error and leaves every byte of data and the cursor as
\* they were.
C1_OverWriteIsNoOp ==
    OverWrite => /\ stream.error
                 /\ stream.dataPtr = Pre.dataPtr
                 /\ stream.bitNum = Pre.bitNum

C1_Witness ==
    /\ last.op = "writeBits" /\ OverWrite
    /\ ~Pre.error /\ stream.error
    /\ Pre.bitNum < Pre.maxWriteBitNum

\* C2: a readBits / readInt of n >= 1 bits that would pass max_read_bits sets
\* error and does not advance the cursor.
C2_OverReadKeepsCursor ==
    OverRead => stream.error /\ stream.bitNum = Pre.bitNum

C2_Witness ==
    /\ last.op = "readInt" /\ OverRead
    /\ ~Pre.error /\ stream.error
    /\ Pre.bitNum < Pre.maxReadBitNum

\* C13 as claimed: a readBits of n >= 1 bits that would pass max_read_bits
\* leaves the ceil(n/8) destination bytes all zero whatever they held, and a
\* readInt that would pass it returns 0.
C13_OverReadZeroFills ==
    OverRead =>
        /\ last.op = "readBits" => \A k \in 1..((last.n + 7) \div 8) : last.dst[k] = 0
        /\ last.op = "readInt" => last.ret = 0

\* C13 as amended: a readBits of n >= 1 bits that would pass max_read_bits
\* leaves the destination bytes as they were, and a readInt that would pass it
\* returns 0 (its own result variable starts at 0).
C13_OverReadLeavesDst ==
    OverRead =>
        /\ last.op = "readBits" => last.dst = Dst0
        /\ last.op = "readInt" => last.ret = 0

\* a readBits past max_read_bits on a stream with bits left, the destination
\* still holding what it held
C13_Witness ==
    /\ last.op = "readBits" /\ OverRead
    /\ Pre.bitNum < Pre.maxReadBitNum
    /\ last.dst[1] # 0

\* the last operation was a read of n >= 1 bits that fits, on a fixed stream
\* whose read ceiling is the end of its buffer
GoodFixedRead ==
    /\ kind = "fixed" /\ IsReadBits /\ last.n >= 1
    /\ Pre.maxReadBitNum = 8 * Pre.bufSize
    /\ Pre.bitNum + last.n <= Pre.maxReadBitNum

\* C14: on a fixed stream with max_read_bits = 8 * buf_size, a readBits /
\* readInt of n >= 1 bits that fits loads only buffer bytes at indices below
\* buf_size.
C14_ReadStaysInBuffer ==
    GoodFixedRead => ReadBitsLastLoad(Pre, last.n) < Pre.bufSize

\* C3 as claimed: whatever the operation, an error that was set stays set.
C3_ErrorNeverCleared == Pre.error => stream.error

\* C3 as amended: an error that was set stays set under every operation other
\* than setBuffer and getPacketStream (which rebinds through setBuffer).
C3_ErrorStickyUntilRebind ==
    (Pre.error /\ last.op \notin { "setBuffer", "getPacketStream" }) => stream.error

C3_Witness ==
    /\ Pre.error /\ stream.error
    /\ last.op = "setPosition"
    /\ stream.bitNum # Pre.bitNum

\* C5: a writeBits of n >= 1 bits at cursor c with c + n <= max_write_bits puts
\* bit i of the source (LSB first) at stream bit c + i for every i < n, leaves
\* every stream bit below c as it was, and moves the cursor to c + n.
C5_WriteBitsLayout ==
    GoodWriteBits =>
        /\ \A i \in 0..(last.n - 1) :
              BitOf(stream.dataPtr, Pre.bitNum + i) = BitOf(last.src, i)
        /\ \A b \in 0..(Pre.bitNum - 1) :
              BitOf(stream.dataPtr, b) = BitOf(Pre.dataPtr, b)
        /\ stream.bitNum = Pre.bitNum + last.n

\* an unaligned write that crosses a byte boundary and changes the buffer
C5_Witness ==
    /\ last.op = "writeBits" /\ GoodWriteBits
    /\ Pre.bitNum % 8 # 0
    /\ Pre.bitNum \div 8 # (stream.bitNum - 1) \div 8
    /\ stream.dataPtr # Pre.dataPtr

\* C6 as claimed: after a successful writeBits, writeInt or writeFlag the bits
\* of the touched final byte from the new cursor to the byte boundary are zero.
C6_TailZeroAfterAnyWrite ==
    (GoodWriteBits \/ GoodWriteFlag) =>
        \A b \in TailBits(stream) : BitOf(stream.dataPtr, b) = 0

\* C6 as amended: this holds after a successful writeBits or writeInt of
\* n >= 1 bits; writeFlag changes the addressed bit only.
C6_TailZeroAfterWriteBits ==
    GoodWriteBits =>
        \A b \in TailBits(stream) : BitOf(stream.dataPtr, b) = 0

\* a write that ends inside a byte whose upper bits were set before
C6_Witness ==
    /\ GoodWriteBits
    /\ stream.bitNum % 8 # 0
    /\ \E b \in TailBits(stream) : BitOf(Pre.dataPtr, b) = 1

\* what writeFlag does instead: all bits but the addressed one are kept
C6_WriteFlagKeepsTail ==
    GoodWriteFlag =>
        \A b \in 0..(8 * Len(stream.dataPtr) - 1) :
            b # Pre.bitNum => BitOf(stream.dataPtr, b) = BitOf(Pre.dataPtr, b)

\* the write ceiling C8 claims for getPacketStream(writeSize)
ClaimedCeiling(writeSize) == 8 * (IF writeSize > 0 THEN writeSize ELSE MaxPacketDataSize)

\* C8 as claimed: after getPacketStream(writeSize) the cursor is 0 and
\* max_write_bits is 8*writeSize (8*MaxPacketDataSize when writeSize = 0).
C8_WriteCeilingIsWriteSize ==
    last.op = "getPacketStream" =>
        stream.bitNum = 0 /\ stream.maxWriteBitNum = ClaimedCeiling(last.n)

\* C8 as amended: after getPacketStream(writeSize) the cursor is 0, buf_size
\* and the read ceiling follow writeSize (MaxPacketDataSize when 0), and the
\* write ceiling is 8*MaxPacketDataSize whatever writeSize is.
C8_PacketStreamCeilings ==
    last.op = "getPacketStream" =>
        /\ stream.bitNum = 0
        /\ 8 * stream.bufSize = ClaimedCeiling(last.n)
        /\ stream.maxReadBitNum = ClaimedCeiling(last.n)
        /\ stream.maxWriteBitNum = 8 * MaxPacketDataSize
        /\ ~stream.error

\* a packet stream asked for fewer bytes than the packet buffer holds
C8_Witness ==
    /\ last.op = "getPacketStream"
    /\ last.n > 0 /\ last.n < MaxPacketDataSize
    /\ stream.maxWriteBitNum > 8 * last.n
-----------------------------------------------------------------------------
(* Signed integers: a writer and a reading peer over the same buffer       *)
(* (specification SpecSigned)                                              *)

\* -value on an S32 (the most negative value has no negation and stays)
Neg32(value) == IF value = -2147483647 - 1 THEN value ELSE 0 - value

WriteSignedIntNoSignMutant(s, value, bitCount) ==
    WriteInt(WriteFlag(s, FALSE), IF value < 0 THEN Neg32(value) ELSE value, bitCount - 1)

\* BitStream::writeSignedInt(value, bitCount)
WriteSignedInt(s, value, bitCount) ==
    IF WriteFlagRet(s, value < 0)
    THEN WriteInt(WriteFlag(s, value < 0), Neg32(value), bitCount - 1)
    ELSE WriteInt(WriteFlag(s, value < 0), value, bitCount - 1)

\* BitStream::readSignedInt(bitCount)
ReadSignedInt(s, bitCount, junk) ==
    LET f == ReadFlag(s, junk)
        r == ReadInt(f.s, bitCount - 1, junk)
    IN  [ s |-> r.s, ret |-> IF f.ret THEN Neg32(r.ret) ELSE r.ret ]

\* widths of signed integers
Widths == 2..MaxWidth

\* the values the width-n round trip is claimed for
SignedRange(n) == (0 - Pow2(n - 1)) .. (Pow2(n - 1) - 1)

\* the values written: both ends of the range, their neighbours, and around 0
SignedSamples(n) ==
    { v \in SignedRange(n) :
        v \in { 0 - Pow2(n - 1), 1 - Pow2(n - 1), -1, 0, 1, Pow2(n - 1) - 2, Pow2(n - 1) - 1 } }

InitSigned ==
    /\ kind = "fixed"
    /\ \E size \in 1..MaxBuf, fill \in HeapFills :
          /\ stream = NewBitStream(Filled(size, fill), size, -1)
          /\ peer = stream
    /\ mMinSpace = 0
    /\ wScratch = NoBuffer
    /\ rScratch = NoBuffer
    /\ last = NoOp
    /\ nops = 0
    /\ g_huffProcessor = NewHuffmanProcessor

\* the peer has read everything the writer wrote
InSync == last.op \in { "init", "peerReadBits", "readSignedInt" }

\* a writer's step; the peer's stream is bound to the same memory
WriterStep(s, l) ==
    /\ InSync
    /\ nops < MaxOps
    /\ nops' = nops + 1
    /\ stream' = s
    /\ peer' = [ peer EXCEPT !.dataPtr = s.dataPtr ]
    /\ last' = [ l EXCEPT !.pre = stream ]
    /\ UNCHANGED <<kind, mMinSpace, wScratch, rScratch, g_huffProcessor>>

\* a peer's step, mirroring the writer's last one
PeerStep(s, l) ==
    /\ peer' = s
    /\ last' = [ l EXCEPT !.pre = peer ]
    /\ UNCHANGED <<kind, stream, mMinSpace, wScratch, rScratch, nops, g_huffProcessor>>

SgnWriteBits ==
    \E n \in BitCounts, src \in Srcs :
        WriterStep(WriteBits(stream, n, src),
                   [ NoOp EXCEPT !.op = "writeBits", !.n = n, !.src = src ])

SgnReadBits ==
    /\ last.op = "writeBits"
    /\ \E junk \in JunkFor(peer, ReadBitsLastLoad(peer, last.n)) :
         LET r == ReadBits(peer, last.n, Dst0, junk)
         IN  PeerStep(r.s, [ NoOp EXCEPT !.op = "peerReadBits", !.n = last.n,
                                        !.dst = r.dst, !.junk = junk ])

SgnWriteSignedInt ==
    \E n \in Widths :
      \E v \in SignedSamples(n) :
        WriterStep(WriteSignedInt(stream, v, n),
                   [ NoOp EXCEPT !.op = "writeSignedInt", !.n = n, !.val = v ])

SgnReadSignedInt ==
    /\ last.op = "writeSignedInt"
    /\ \E junk \in JunkFor(peer, ReadBitsLastLoad(peer, last.n) + 1) :
         LET r == ReadSignedInt(peer, last.n, junk)
         IN  PeerStep(r.s, [ NoOp EXCEPT !.op = "readSignedInt", !.n = last.n,
                                        !.val = last.val, !.ret = r.ret, !.junk = junk ])

NextSigned ==
    \/ SgnWriteBits
    \/ SgnReadBits
    \/ SgnWriteSignedInt
    \/ SgnReadSignedInt

SpecSigned == InitSigned /\ [][NextSigned]_vars

\* the peer has just read back a signed integer whose n bits fitted the stream
SignedRoundTrip ==
    /\ last.op = "readSignedInt"
    /\ Pre.bitNum + last.n <= stream.maxWriteBitNum
    /\ Pre.bitNum + last.n <= Pre.maxReadBitNum

\* C4 as claimed: for n in 2..32 and -2^(n-1) <= v < 2^(n-1), readSignedInt(n)
\* after writeSignedInt(v, n) from the same cursor returns v and consumes n bits.
C4_SignedRoundTrip ==
    (SignedRoundTrip /\ last.val \in SignedRange(last.n)) =>
        /\ last.ret = last.val
        /\ peer.bitNum = Pre.bitNum + last.n
        /\ stream.bitNum = peer.bitNum

\* C4 as amended: the same for -2^(n-1) < v < 2^(n-1); the n-1 magnitude bits
\* cannot hold 2^(n-1).
C4_SignedRoundTripOpen ==
    (SignedRoundTrip /\ last.val \in SignedRange(last.n) /\ last.val # 0 - Pow2(last.n - 1)) =>
        /\ last.ret = last.val
        /\ peer.bitNum = Pre.bitNum + last.n
        /\ stream.bitNum = peer.bitNum

\* what the code returns for v = -2^(n-1): the magnitude is cut to 0
C4_LowestReadsZero ==
    (SignedRoundTrip /\ last.val = 0 - Pow2(last.n - 1)) => last.ret = 0

\* a negative value read back across a byte boundary from an unaligned cursor
C4_Witness ==
    /\ SignedRoundTrip
    /\ last.val < 0 /\ last.ret = last.val
    /\ Pre.bitNum % 8 # 0
    /\ Pre.bitNum \div 8 # (peer.bitNum - 1) \div 8
-----------------------------------------------------------------------------
(* The growth variants (specification SpecGrow) *)

\* dMalloc(size): a block of size bytes of unspecified content
Malloc(size, fill) == [ i \in 1..size |-> fill ]

\* dRealloc(d, size): the old content up to the smaller size, the rest unspecified
Realloc(d, size, fill) == [ i \in 1..size |-> IF i <= Len(d) THEN d[i] ELSE fill ]

\* dMemcpy(dst, src, n); a source byte outside its block is whatever lies there
Memcpy(dst, src, n, junk) ==
    [ i \in 1..Len(dst) |-> IF i <= n THEN Load(src, i - 1, junk) ELSE dst[i] ]

\* ResizeBitStream::ResizeBitStream(minSpace, initialSize)
NewResizeBitStream(minSpace, initialSize, fill) ==
    LET size == IF initialSize = 0 THEN minSpace * 2 ELSE initialSize
    IN  SetBuffer(NewBitStream(<< >>, 0, 0), Malloc(size, fill), size, size)

ValidateGrowthMutant(s, minSpace, fill) ==
    IF GetPosition(s) + minSpace > s.bufSize
    THEN LET size == GetPosition(s) + minSpace
         IN  [ s EXCEPT !.bufSize = size,
                        !.dataPtr = Realloc(s.dataPtr, size, fill),
                        !.maxReadBitNum = size * 8,
                        !.maxWriteBitNum = size * 8 ]
    ELSE s

\* ResizeBitStream::validate()
Validate(s, minSpace, fill) ==
    IF GetPosition(s) + minSpace > s.bufSize
    THEN LET size == GetPosition(s) + minSpace * 2
         IN  [ s EXCEPT !.bufSize = size,
                        !.dataPtr = Realloc(s.dataPtr, size, fill),
                        !.maxReadBitNum = size * 8,
                        !.maxWriteBitNum = size * 8 ]
    ELSE s

\* InfiniteBitStream::validate(upcomingBytes)
ValidateInfinite(s, minSpace, upcomingBytes, fill) ==
    IF GetPosition(s) + upcomingBytes + minSpace > s.bufSize
    THEN LET size == GetPosition(s) + upcomingBytes + minSpace
         IN  [ s EXCEPT !.bufSize = size,
                        !.dataPtr = Realloc(s.dataPtr, size, fill),
                        !.maxReadBitNum = size * 8,
                        !.maxWriteBitNum = size * 8 ]
    ELSE s

\* InfiniteBitStream::compact()
Compact(s, minSpace, fill) ==
    LET oldSize == s.bufSize
        tmp     == Malloc(s.bufSize, fill)
        size    == GetPosition(s) + minSpace * 2
    IN  [ s EXCEPT !.bufSize = size,
                   !.dataPtr = Memcpy(tmp, s.dataPtr, oldSize, fill),
                   !.maxReadBitNum = size * 8,
                   !.maxWriteBitNum = size * 8 ]

\* InfiniteBitStream::reset()
Reset(s) == SetPosition(s, 0)

MinSpaces == 1..MaxMinSpace

InitResize ==
    /\ kind = "resize"
    /\ \E minSpace \in MinSpaces, initialSize \in { 0, 1 }, fill \in HeapFills :
          /\ mMinSpace = minSpace
          /\ stream = NewResizeBitStream(minSpace, initialSize, fill)

\* InfiniteBitStream::InfiniteBitStream(): a ResizeBitStream built with the
\* default arguments (initialSize 0)
InitInfinite ==
    /\ kind = "infinite"
    /\ \E minSpace \in MinSpaces, fill \in HeapFills :
          /\ mMinSpace = minSpace
          /\ stream = NewResizeBitStream(minSpace, 0, fill)

InitGrow ==
    /\ InitResize \/ InitInfinite
    /\ peer = NoStream
    /\ wScratch = NoBuffer
    /\ rScratch = NoBuffer
    /\ last = NoOp
    /\ nops = 0
    /\ g_huffProcessor = NewHuffmanProcessor

\* the contents new memory can have, when there is new memory
FillsFor(grows) == IF grows THEN HeapFills ELSE { 0 }

DoValidate ==
    /\ kind \in { "resize", "infinite" }
    /\ \E fill \in FillsFor(GetPosition(stream) + mMinSpace > stream.bufSize) :
          Step(Validate(stream, mMinSpace, fill), [ NoOp EXCEPT !.op = "validate" ])

DoValidateInfinite ==
    /\ kind = "infinite"
    /\ \E upcomingBytes \in 0..MaxUpcoming :
        \E fill \in FillsFor(GetPosition(stream) + upcomingBytes + mMinSpace > stream.bufSize) :
          Step(ValidateInfinite(stream, mMinSpace, upcomingBytes, fill),
               [ NoOp EXCEPT !.op = "validateInfinite", !.n = upcomingBytes ])

DoCompact ==
    /\ kind = "infinite"
    /\ \E fill \in HeapFills :
          Step(Compact(stream, mMinSpace, fill), [ NoOp EXCEPT !.op = "compact" ])

DoReset ==
    /\ kind = "infinite"
    /\ Step(Reset(stream), [ NoOp EXCEPT !.op = "reset" ])

NextGrow ==
    \/ DoValidate
    \/ DoValidateInfinite
    \/ DoCompact
    \/ DoReset
    \/ DoSetPosition
    \/ DoWriteBits
    \/ DoWriteFlag

SpecGrow == InitGrow /\ [][NextGrow]_vars

\* every kind of stream with every operation on it
InitAll == Init \/ InitGrow

NextAll == Next \/ NextGrow

SpecAll == InitAll /\ [][NextAll]_vars

IsValidate == last.op \in { "validate", "validateInfinite" }

\* the bytes of the buffer below the byte position of stream s
LivePrefix(s) == 1..Min(GetPosition(s), Len(s.dataPtr))

\* C9: every validate keeps the cursor and the buffer content up to it;
\* ResizeBitStream::validate grows the buffer exactly when
\* position + min_space > buf_size, to position + 2*min_space; after any
\* validate both ceilings are 8*buf_size and position + min_space <= buf_size.
C9_ValidateFrame ==
    IsValidate =>
        /\ stream.bitNum = Pre.bitNum
        /\ \A i \in LivePrefix(Pre) : i <= Len(stream.dataPtr) /\ stream.dataPtr[i] = Pre.dataPtr[i]
        /\ last.op = "validate" =>
              IF GetPosition(Pre) + mMinSpace > Pre.bufSize
              THEN /\ stream.bufSize = GetPosition(Pre) + 2 * mMinSpace
                   /\ Len(stream.dataPtr) = stream.bufSize
              ELSE /\ stream.bufSize = Pre.bufSize
                   /\ stream.dataPtr = Pre.dataPtr
        /\ stream.maxReadBitNum = 8 * stream.bufSize
        /\ stream.maxWriteBitNum = 8 * stream.bufSize
        /\ GetPosition(stream) + mMinSpace <= stream.bufSize

\* a ResizeBitStream::validate that had to grow a buffer holding written bytes
C9_Witness ==
    /\ last.op = "validate"
    /\ GetPosition(Pre) > 0
    /\ GetPosition(Pre) + mMinSpace > Pre.bufSize
    /\ stream.bufSize > Pre.bufSize

\* C10: compact allocates position + 2*min_space bytes and copies the live
\* prefix into them; afterwards buf_size and both ceilings do not exceed the
\* bytes allocated, and the cursor is where it was.
C10_CompactAllocation ==
    last.op = "compact" =>
        /\ Len(stream.dataPtr) = GetPosition(Pre) + 2 * mMinSpace
        /\ \A i \in LivePrefix(Pre) : i <= Len(stream.dataPtr) /\ stream.dataPtr[i] = Pre.dataPtr[i]
        /\ stream.bufSize <= Len(stream.dataPtr)
        /\ stream.maxReadBitNum <= 8 * Len(stream.dataPtr)
        /\ stream.maxWriteBitNum <= 8 * Len(stream.dataPtr)
        /\ stream.bitNum = Pre.bitNum

\* what the code does: the new block has the old buf_size
C10_CompactKeepsOldSize ==
    last.op = "compact" =>
        /\ Len(stream.dataPtr) = Pre.bufSize
        /\ stream.bufSize = GetPosition(Pre) + 2 * mMinSpace
        /\ stream.bitNum = Pre.bitNum
-----------------------------------------------------------------------------
(* HuffmanProcessor *)

\* HuffmanProcessor::csm_charFreqs
csm_charFreqs ==
    << 0, 0, 0, 0, 0, 0, 0, 0, 0, 329, 21, 0, 0, 0, 0, 0,
       0, 0, 0, 0, 0, 0, 0, 0, 0, 0, 0, 0, 0, 0, 0, 0,
       2809, 68, 0, 27, 0, 58, 3, 62, 4, 7, 0, 0, 15, 65, 554, 3,
       394, 404, 189, 117, 30, 51, 27, 15, 34, 32, 80, 1, 142, 3, 142, 39,
       0, 144, 125, 44, 122, 275, 70, 135, 61, 127, 8, 12, 113, 246, 122, 36,
       185, 1, 149, 309, 335, 12, 11, 14, 54, 151, 0, 0, 2, 0, 0, 211,
       0, 2090, 344, 736, 993, 2872, 701, 605, 646, 1552, 328, 305, 1240, 735, 1533, 1713,
       562, 3, 1775, 1149, 1469, 979, 407, 553, 59, 279, 31, 0, 0, 0, 68, 0,
       0, 0, 0, 0, 0, 0, 0, 0, 0, 0, 0, 0, 0, 0, 0, 0,
       0, 0, 0, 0, 0, 0, 0, 0, 0, 0, 0, 0, 0, 0, 0, 0,
       0, 0, 0, 0, 0, 0, 0, 0, 0, 0, 0, 0, 0, 0, 0, 0,
       0, 0, 0, 0, 0, 0, 0, 0, 0, 0, 0, 0, 0, 0, 0, 0,
       0, 0, 0, 0, 0, 0, 0, 0, 0, 0, 0, 0, 0, 0, 0, 0,
       0, 0, 0, 0, 0, 0, 0, 0, 0, 0, 0, 0, 0, 0, 0, 0,
       0, 0, 0, 0, 0, 0, 0, 0, 0, 0, 0, 0, 0, 0, 0, 0,
       0, 0, 0, 0, 0, 0, 0, 0, 0, 0, 0, 0, 0, 0, 0, 0 >>

\* a null pNode / pLeaf of a HuffWrap
NULL == -1

\* HuffWrap::set(HuffLeaf*), HuffWrap::set(HuffNode*): pointers are array indices
WrapLeaf(k) == [ pNode |-> NULL, pLeaf |-> k ]
WrapNode(n) == [ pNode |-> n, pLeaf |-> NULL ]

\* HuffWrap::getPop
GetPop(w, nodes, leaves) ==
    IF w.pNode # NULL THEN nodes[w.pNode + 1].pop ELSE leaves[w.pLeaf].pop

\* HuffmanProcessor::determineIndex
DetermineIndex(w) ==
    IF w.pLeaf # NULL THEN 0 - (w.pLeaf + 1) ELSE w.pNode

\* statements run in order: first is evaluated before rest
AndThen(first, rest) == IF first = first THEN rest ELSE rest

\* one wrap of the scan of buildTables for the two smallest populations;
\* m holds min1, min2, index1, index2
ScanWrap(pWrap, nodes, leaves, i, m) ==
    LET p == GetPop(pWrap[i + 1], nodes, leaves)
    IN  IF p < m.min1
        THEN [ min1 |-> p, index1 |-> i, min2 |-> m.min1, index2 |-> m.index1 ]
        ELSE IF p < m.min2
        THEN [ m EXCEPT !.min2 = p, !.index2 = i ]
        ELSE m

\* the scan over the wraps lo .. hi-1 in ascending order, split in halves to
\* keep the evaluation shallow
RECURSIVE FindMins(_, _, _, _, _, _)
FindMins(pWrap, nodes, leaves, lo, hi, m) ==
    IF hi <= lo THEN m
    ELSE IF hi = lo + 1 THEN ScanWrap(pWrap, nodes, leaves, lo, m)
    ELSE LET mid  == (lo + hi) \div 2
             left == FindMins(pWrap, nodes, leaves, lo, mid, m)
         IN  AndThen(left.min1, FindMins(pWrap, nodes, leaves, mid, hi, left))

\* one round of the while loop of buildTables; min1 and min2 start above every
\* population (0xfffffffe and 0xffffffff in the source)
MergeStep(b, leaves) ==
    LET m          == FindMins(b.pWrap, b.nodes, leaves, 0, b.currWraps,
                               [ min1 |-> 2147483646, min2 |-> 2147483647,
                                 index1 |-> -1, index2 |-> -1 ])
        w1         == b.pWrap[m.index1 + 1]
        w2         == b.pWrap[m.index2 + 1]
        rNode      == [ pop    |-> GetPop(w1, b.nodes, leaves) + GetPop(w2, b.nodes, leaves),
                        index0 |-> DetermineIndex(w1),
                        index1 |-> DetermineIndex(w2) ]
        nodes      == Append(b.nodes, rNode)
        mergeIndex == IF m.index1 > m.index2 THEN m.index2 ELSE m.index1
        nukeIndex  == IF m.index1 > m.index2 THEN m.index1 ELSE m.index2
        merged     == [ b.pWrap EXCEPT ![mergeIndex + 1] = WrapNode(Len(nodes) - 1) ]
        nuked      == IF m.index2 # b.currWraps - 1
                      THEN [ merged EXCEPT ![nukeIndex + 1] = merged[b.currWraps] ]
                      ELSE merged
    IN  [ nodes |-> nodes, pWrap |-> nuked, currWraps |-> b.currWraps - 1 ]

\* the while loop of buildTables: at most rounds rounds, until one wrap is left
RECURSIVE MergeLoop(_, _, _)
MergeLoop(b, leaves, rounds) ==
    IF b.currWraps = 1 \/ rounds = 0 THEN b
    ELSE IF rounds = 1 THEN MergeStep(b, leaves)
    ELSE LET half == MergeLoop(b, leaves, rounds \div 2)
         IN  AndThen(half.currWraps, MergeLoop(half, leaves, rounds - rounds \div 2))

\* BitStream::getCurPos / setCurPos (bitStream.h): the cursor in bits
GetCurPos(s) == s.bitNum
SetCurPos(s, pos) == [ s EXCEPT !.bitNum = pos ]

RECURSIVE GenerateCodes(_, _, _, _, _)

GenerateCodesSwappedMutant(rBS, leaves, nodes, index, depth) ==
    IF index < 0
    THEN [ bs     |-> rBS,
           leaves |-> [ leaves EXCEPT ![0 - (index + 1)] =
                          [ @ EXCEPT !.code = rBS.dataPtr, !.numBits = U8(depth) ] ] ]
    ELSE LET rNode == nodes[index + 1]
             pos   == GetCurPos(rBS)
             r0    == GenerateCodes(WriteFlag(rBS, TRUE), leaves, nodes, rNode.index0, depth + 1)
             r1    == GenerateCodes(WriteFlag(SetCurPos(r0.bs, pos), FALSE), r0.leaves, nodes,
                                    rNode.index1, depth + 1)
         IN  AndThen(r0.bs.bitNum, [ bs |-> SetCurPos(r1.bs, pos), leaves |-> r1.leaves ])

\* HuffmanProcessor::generateCodes(rBS, index, depth): the stream and the leaves
GenerateCodes(rBS, leaves, nodes, index, depth) ==
    IF index < 0
    THEN [ bs     |-> rBS,
           leaves |-> [ leaves EXCEPT ![0 - (index + 1)] =
                          [ @ EXCEPT !.code = rBS.dataPtr, !.numBits = U8(depth) ] ] ]
    ELSE LET rNode == nodes[index + 1]
             pos   == GetCurPos(rBS)
             r0    == GenerateCodes(WriteFlag(rBS, FALSE), leaves, nodes, rNode.index0, depth + 1)
             r1    == GenerateCodes(WriteFlag(SetCurPos(r0.bs, pos), TRUE), r0.leaves, nodes,
                                    rNode.index1, depth + 1)
         IN  AndThen(r0.bs.bitNum, [ bs |-> SetCurPos(r1.bs, pos), leaves |-> r1.leaves ])

\* HuffmanProcessor::buildTables: m_huffNodes and m_huffLeaves
BuildTables ==
    LET leaves == [ i \in 0..255 |->
                      [ pop |-> csm_charFreqs[i + 1] + 1, symbol |-> i,
                        code |-> << 0, 0, 0, 0 >>, numBits |-> 0 ] ]
        b      == MergeLoop([ nodes     |-> << [ pop |-> 0, index0 |-> 0, index1 |-> 0 ] >>,
                              pWrap     |-> [ i \in 1..256 |-> WrapLeaf(i - 1) ],
                              currWraps |-> 256 ], leaves, 255)
        nodes  == [ b.nodes EXCEPT ![1] = b.nodes[b.pWrap[1].pNode + 1] ]
        g      == GenerateCodes(NewBitStream(<< 0, 0, 0, 0 >>, 4, -1), leaves, nodes, 0, 0)
    IN  [ m_tablesBuilt |-> TRUE, m_huffNodes |-> nodes, m_huffLeaves |-> g.leaves ]
-----------------------------------------------------------------------------
(* Strings: writeString / readString over the Huffman coder *)

\* longest string handed to writeString
MaxStrLen == 4
\* size in bytes of the buffer the strings are written to
MaxStrBuf == 16

\* char buffer[256] of setStringBuffer and readString
ScratchSize == 256

\* string[j] of a NUL-terminated string given as its characters
CharAt(str, j) == IF j < Len(str) THEN str[j + 1] ELSE 0

\* dStrlen of the memory at a char pointer, counted from index i
RECURSIVE StrLenFrom(_, _)
StrLenFrom(mem, i) ==
    IF i >= Len(mem) \/ mem[i + 1] = 0 THEN i ELSE StrLenFrom(mem, i + 1)

\* the NUL-terminated string held by the memory at a char pointer
CStr(mem) == SubSeq(mem, 1, StrLenFrom(mem, 0))

\* dStrcpy(dst, src): the characters of src and its terminator
Strcpy(dst, src) ==
    LET n == StrLenFrom(src, 0)
    IN  [ i \in 1..Len(dst) |-> IF i <= n THEN src[i] ELSE IF i = n + 1 THEN 0 ELSE dst[i] ]

\* dStrncpy(dst, str, n): n characters, zero-filled behind the end of str
Strncpy(dst, str, n) ==
    [ i \in 1..Len(dst) |-> IF i <= n THEN CharAt(str, i - 1) ELSE dst[i] ]

\* the sum of the code lengths of the first len characters (writeHuffBuffer)
RECURSIVE CountBits(_, _, _)
CountBits(hp, str, len) ==
    IF len = 0 THEN 0
    ELSE CountBits(hp, str, len - 1) + hp.m_huffLeaves[str[len]].numBits

\* the loop of writeHuffBuffer that writes the codes of characters i .. len-1
RECURSIVE WriteCodes(_, _, _, _, _)
WriteCodes(hp, s, str, i, len) ==
    IF i >= len THEN s
    ELSE LET rLeaf == hp.m_huffLeaves[str[i + 1]]
         IN  WriteCodes(hp, WriteBits(s, rLeaf.numBits, rLeaf.code), str, i + 1, len)

\* HuffmanProcessor::writeHuffBuffer(pStream, out_pBuffer, maxLen) for a
\* non-null string, tables built
WriteHuffBuffer(hp, s, str, maxLen) ==
    LET len     == IF Len(str) > maxLen THEN maxLen ELSE Len(str)
        numBits == CountBits(hp, str, len)
    IN  IF numBits >= len * 8
        THEN WriteBits(WriteInt(WriteFlag(s, FALSE), len, 8), len * 8, str \o << 0 >>)
        ELSE WriteCodes(hp, WriteInt(WriteFlag(s, TRUE), len, 8), str, 0, len)

\* the while (true) loop of readHuffBuffer: walk from node index to a leaf
RECURSIVE ReadSymbol(_, _, _, _)
ReadSymbol(hp, s, index, junk) ==
    IF index >= 0
    THEN LET f == ReadFlag(s, junk)
         IN  ReadSymbol(hp, f.s,
                        IF f.ret THEN hp.m_huffNodes[index + 1].index1
                                 ELSE hp.m_huffNodes[index + 1].index0, junk)
    ELSE [ s |-> s, symbol |-> hp.m_huffLeaves[0 - (index + 1)].symbol ]

\* the for loop of readHuffBuffer over characters i .. len-1
RECURSIVE ReadSymbols(_, _, _, _, _, _)
ReadSymbols(hp, s, out, i, len, junk) ==
    IF i >= len THEN [ s |-> s, out |-> out ]
    ELSE LET r == ReadSymbol(hp, s, 0, junk)
         IN  ReadSymbols(hp, r.s, Store(out, i, r.symbol), i + 1, len, junk)

\* HuffmanProcessor::readHuffBuffer(pStream, out_pBuffer), tables built; out is
\* the memory at out_pBuffer
ReadHuffBuffer(hp, s, out, junk) ==
    LET f == ReadFlag(s, junk)
        l == ReadInt(f.s, 8, junk)
    IN  IF f.ret
        THEN LET r == ReadSymbols(hp, l.s, out, 0, l.ret, junk)
             IN  [ s |-> r.s, out |-> Store(r.out, l.ret, 0) ]
        ELSE LET r == ReadBits(l.s, l.ret * 8, out, junk)
             IN  [ s |-> r.s, out |-> Store(r.dst, l.ret, 0) ]

\* the for loop of writeString: the length of the prefix shared with stringBuffer
RECURSIVE MatchLen(_, _, _, _)
MatchLen(scratch, str, maxLen, j) ==
    IF j < maxLen /\ Load(scratch, j, 0) = CharAt(str, j) /\ CharAt(str, j) # 0
    THEN MatchLen(scratch, str, maxLen, j + 1)
    ELSE j

WriteStringNoSkipMutant(hp, s, scratch, str, maxLen) ==
    LET has  == scratch # NoBuffer
        j    == IF has THEN MatchLen(scratch, str, maxLen, 0) ELSE 0
        sb   == IF has THEN Store(Strncpy(scratch, str, maxLen), maxLen, 0) ELSE scratch
        s1   == IF has THEN WriteFlag(s, j > 2) ELSE s
        took == has /\ WriteFlagRet(s, j > 2)
    IN  [ s       |-> IF took
                      THEN WriteHuffBuffer(hp, WriteInt(s1, j, 8), str, maxLen)
                      ELSE WriteHuffBuffer(hp, s1, str, maxLen),
          scratch |-> sb, j |-> j, prefix |-> took ]

\* BitStream::writeString(string, maxLen) for a non-null string; scratch is the
\* memory at stringBuffer, or NoBuffer
WriteString(hp, s, scratch, str, maxLen) ==
    LET has  == scratch # NoBuffer
        j    == IF has THEN MatchLen(scratch, str, maxLen, 0) ELSE 0
        sb   == IF has THEN Store(Strncpy(scratch, str, maxLen), maxLen, 0) ELSE scratch
        s1   == IF has THEN WriteFlag(s, j > 2) ELSE s
        took == has /\ WriteFlagRet(s, j > 2)
    IN  [ s       |-> IF took
                      THEN WriteHuffBuffer(hp, WriteInt(s1, j, 8),
                                           SubSeq(str, j + 1, Len(str)), maxLen - j)
                      ELSE WriteHuffBuffer(hp, s1, str, maxLen),
          scratch |-> sb, j |-> j, prefix |-> took ]

\* BitStream::readString(buf)
ReadString(hp, s, scratch, buf, junk) ==
    LET has == scratch # NoBuffer
        f   == IF has THEN ReadFlag(s, junk) ELSE [ s |-> s, ret |-> FALSE ]
    IN  IF has /\ f.ret
        THEN LET o  == ReadInt(f.s, 8, junk)
                 r  == ReadHuffBuffer(hp, o.s, SubSeq(scratch, o.ret + 1, Len(scratch)), junk)
                 sb == SubSeq(scratch, 1, o.ret) \o r.out
             IN  [ s |-> r.s, scratch |-> sb, buf |-> Strcpy(buf, sb) ]
        ELSE LET r == ReadHuffBuffer(hp, f.s, buf, junk)
             IN  [ s |-> r.s,
                   scratch |-> IF has THEN Strcpy(scratch, r.out) ELSE scratch,
                   buf |-> r.out ]

\* the strings written: runs of 'e' (a 4-bit code), with or without one
\* character of a 15-bit code at the end
StrRun(k) == [ i \in 1..k |-> 101 ]
StrInputs ==
    { StrRun(k) : k \in 0..MaxStrLen } \cup { StrRun(k) \o << 1 >> : k \in 0..(MaxStrLen - 1) }

\* the maxLen handed to writeString with a string: the default, and for the
\* longest strings their length and one less
MaxLens(str) ==
    { 255 } \cup (IF Len(str) = MaxStrLen THEN { Len(str), Len(str) - 1 } ELSE { })

\* what both scratch buffers hold at the start: no buffer, an empty string, or
\* "eee" with stale bytes behind its terminator
ScratchInits ==
    { NoBuffer,
      [ i \in 1..ScratchSize |-> 0 ],
      [ i \in 1..ScratchSize |-> IF i <= 3 THEN 101 ELSE IF i = 4 THEN 0 ELSE 255 ] }

\* char buf[256] of the caller of readString, not initialised
Buf0 == [ i \in 1..ScratchSize |-> 170 ]

\* a writer and a reader bound to the same memory, with equal scratch buffers
InitStr ==
    /\ kind = "fixed"
    /\ stream = NewBitStream(Filled(MaxStrBuf, 255), MaxStrBuf, -1)
    /\ peer = stream
    /\ mMinSpace = 0
    /\ \E scratch \in ScratchInits : wScratch = scratch /\ rScratch = scratch
    /\ last = NoOp
    /\ nops = 0
    /\ g_huffProcessor = NewHuffmanProcessor

\* if (m_tablesBuilt == false) buildTables(), of writeHuffBuffer and readHuffBuffer
Tables(hp) == IF hp.m_tablesBuilt THEN hp ELSE BuildTables

\* the writer sends a string once the reader has read the one before
StrWriteString ==
    LET hp == Tables(g_huffProcessor)
    IN  /\ last.op \in { "init", "readString" }
        /\ nops < MaxOps
        /\ \E str \in StrInputs :
             \E maxLen \in MaxLens(str) :
               LET w == WriteString(hp, stream, wScratch, str, maxLen)
               IN  /\ stream' = w.s
                   /\ peer' = [ peer EXCEPT !.dataPtr = w.s.dataPtr ]
                   /\ wScratch' = w.scratch
                   /\ last' = [ op |-> "writeString", n |-> maxLen, val |-> w.j, src |-> str,
                                pre |-> stream, dst |-> wScratch,
                                ret |-> IF w.prefix THEN 1 ELSE 0, junk |-> 0 ]
        /\ nops' = nops + 1
        /\ g_huffProcessor' = hp
        /\ UNCHANGED <<kind, mMinSpace, rScratch>>

\* the reader reads the string; a packet whose writes failed is not delivered
StrReadString ==
    LET hp == Tables(g_huffProcessor)
    IN  /\ last.op = "writeString"
        /\ ~stream.error
        /\ \E junk \in JunkFor(peer, peer.bitNum \div 8 + 2 * MaxStrLen + 4) :
             LET r == ReadString(hp, peer, rScratch, Buf0, junk)
             IN  /\ peer' = r.s
                 /\ rScratch' = r.scratch
                 /\ last' = [ last EXCEPT !.op = "readString", !.pre = peer,
                                          !.dst = CStr(r.buf), !.junk = junk ]
        /\ g_huffProcessor' = hp
        /\ UNCHANGED <<kind, stream, mMinSpace, wScratch, nops>>

NextStr == StrWriteString \/ StrReadString

SpecStr == InitStr /\ [][NextStr]_vars

IsWriteString == last.op = "writeString"
IsReadString == last.op = "readString"

\* the strings the two scratch buffers hold are equal, or neither side has one
SameScratchString ==
    IF wScratch = NoBuffer \/ rScratch = NoBuffer
    THEN wScratch = rScratch
    ELSE CStr(wScratch) = CStr(rScratch)

\* a prefix offset j is within maxLen and 255, and the writer's scratch buffer
\* held the first j characters of the string
PrefixIsShared ==
    IsWriteString /\ last.ret = 1 =>
        /\ last.val <= Min(last.n, 255)
        /\ \A i \in 1..last.val : last.dst[i] = last.src[i]

\* C7 as stated: a string of length <= maxLen <= 255 is read back byte for
\* byte, the two scratch buffers are equal afterwards, and a prefix offset is
\* within bounds and names characters the scratch buffer shared with the string
C7_StringRoundTripRaw ==
    /\ IsReadString /\ Len(last.src) <= last.n =>
          last.dst = last.src /\ wScratch = rScratch
    /\ PrefixIsShared

\* C7, amended: a string of length <= maxLen <= 255 is read back byte for
\* byte, the two scratch buffers hold equal NUL-terminated strings afterwards
\* (the bytes behind the terminator can differ), and a prefix offset is within
\* bounds and names characters the scratch buffer shared with the string
C7_StringRoundTrip ==
    /\ IsReadString /\ Len(last.src) <= last.n =>
          last.dst = last.src /\ SameScratchString
    /\ PrefixIsShared

\* a second string was sent through the prefix path with characters left to
\* send, and came back whole
C7_Witness ==
    /\ IsReadString /\ nops = 2
    /\ last.ret = 1 /\ last.val > 2 /\ Len(last.src) > last.val
    /\ last.dst = last.src /\ wScratch # NoBuffer

-----------------------------------------------------------------------------
(* The Huffman tree: every path from node 0, one flag at a time *)

\* the processor before its first use
InitHuff ==
    /\ kind = "fixed"
    /\ stream = NoStream
    /\ peer = NoStream
    /\ mMinSpace = 0
    /\ wScratch = NoBuffer
    /\ rScratch = NoBuffer
    /\ last = NoOp
    /\ nops = 0
    /\ g_huffProcessor = NewHuffmanProcessor

\* buildTables at the first use of the processor; a walk starts at node 0
HuffBuildTables ==
    /\ ~g_huffProcessor.m_tablesBuilt
    /\ g_huffProcessor' = BuildTables
    /\ last' = [ NoOp EXCEPT !.op = "buildTables" ]
    /\ UNCHANGED <<kind, stream, peer, mMinSpace, wScratch, rScratch, nops>>

\* one round of the while (true) loop of readHuffBuffer: at node last.val,
\* after last.n flags (last.src), the flag read is b
HuffDescend ==
    /\ g_huffProcessor.m_tablesBuilt
    /\ last.val >= 0
    /\ \E b \in { 0, 1 } :
         last' = [ last EXCEPT
                     !.op  = "descend",
                     !.n   = last.n + 1,
                     !.src = Append(last.src, b),
                     !.val = IF b = 1 THEN g_huffProcessor.m_huffNodes[last.val + 1].index1
                                      ELSE g_huffProcessor.m_huffNodes[last.val + 1].index0 ]
    /\ UNCHANGED <<kind, stream, peer, mMinSpace, wScratch, rScratch, nops, g_huffProcessor>>

NextHuff == HuffBuildTables \/ HuffDescend

SpecHuff == InitHuff /\ [][NextHuff]_vars

\* the walk stands on a leaf
AtLeaf == g_huffProcessor.m_tablesBuilt /\ last.val < 0

\* the node or leaf reached from index by bits i .. n-1 of a stored code; NULL
\* if the bits run on behind a leaf
RECURSIVE WalkCode(_, _, _, _, _)
WalkCode(hp, index, code, i, n) ==
    IF i >= n THEN index
    ELSE IF index < 0 THEN NULL
    ELSE WalkCode(hp, IF BitOf(code, i) = 1 THEN hp.m_huffNodes[index + 1].index1
                                            ELSE hp.m_huffNodes[index + 1].index0,
                  code, i + 1, n)

\* 2^30 times the Kraft sum of the leaves lo .. hi-1
RECURSIVE KraftSum(_, _, _)
KraftSum(hp, lo, hi) ==
    IF hi <= lo THEN 0
    ELSE IF hi = lo + 1 THEN Pow2(30 - hp.m_huffLeaves[lo].numBits)
    ELSE KraftSum(hp, lo, (lo + hi) \div 2) + KraftSum(hp, (lo + hi) \div 2, hi)

\* every child index names a node other than node 0 or a leaf
ChildrenValid(hp) ==
    \A k \in 1..Len(hp.m_huffNodes) :
        \A c \in { hp.m_huffNodes[k].index0, hp.m_huffNodes[k].index1 } :
            /\ c # 0
            /\ c < Len(hp.m_huffNodes)
            /\ c >= -256

\* C11: once the tables are built, every child index is valid, every path
\* from node 0 that ends on a leaf is the stored code of that leaf (0 = index0,
\* 1 = index1) and its length the leaf's numBits, each of the 256 leaves is
\* where its own code leads from node 0, and the Kraft sum of the 256 code
\* lengths is 1
C11_HuffmanTree ==
    g_huffProcessor.m_tablesBuilt =>
        LET hp == g_huffProcessor
        IN  /\ ChildrenValid(hp)
            /\ AtLeaf =>
                 LET rLeaf == hp.m_huffLeaves[0 - (last.val + 1)]
                 IN  /\ rLeaf.numBits = last.n
                     /\ \A i \in 1..last.n : BitOf(rLeaf.code, i - 1) = last.src[i]
            /\ \A k \in 0..255 :
                 /\ hp.m_huffLeaves[k].numBits \in 1..30
                 /\ hp.m_huffLeaves[k].symbol = k
                 /\ WalkCode(hp, 0, hp.m_huffLeaves[k].code, 0, hp.m_huffLeaves[k].numBits)
                      = 0 - (k + 1)
            /\ KraftSum(hp, 0, 256) = Pow2(30)

\* the walk has reached the leaf of 'e' by its four flags
C11_Witness ==
    AtLeaf /\ last.val = 0 - (101 + 1) /\ last.n = 4 /\ last.src = << 1, 1, 1, 1 >>

-----------------------------------------------------------------------------
(* Compressed points *)

\* Coordinates and the scale are whole numbers of one small unit, and the
\* arithmetic on them is exact: F32 rounding is not modelled.

\* size in bytes of the buffer a point is written to
MaxPointBuf == 13
\* largest scale
MaxScale == 3

\* static U32 gBitCounts[4]
gBitCounts == << 16, 18, 20, 32 >>

\* Point3F operator-
VecSub(p, q) == << p[1] - q[1], p[2] - q[2], p[3] - q[3] >>

Abs(x) == IF x < 0 THEN 0 - x ELSE x

\* the square of x, |x| < 2^21, as hi * 2^22 + lo
Square(x) ==
    LET a   == Abs(x) \div 2048
        b   == Abs(x) % 2048
        m   == 2 * a * b
        low == (m % 2048) * 2048 + b * b
    IN  [ hi |-> a * a + m \div 2048 + low \div 4194304, lo |-> low % 4194304 ]

\* x*x + y*y + z*z of a vector, as hi * 2^22 + lo
LenSquared(vec) ==
    LET sx  == Square(vec[1])
        sy  == Square(vec[2])
        sz  == Square(vec[3])
        low == sx.lo + sy.lo + sz.lo
    IN  [ hi |-> sx.hi + sy.hi + sz.hi + low \div 4194304, lo |-> low % 4194304 ]

\* vec.len() * invScale < (1 << k), with invScale = 1 / scale and scale > 0
DistBelow(vec, scale, k) ==
    LET l == LenSquared(vec)
        t == Square(Pow2(k) * scale)
    IN  l.hi < t.hi \/ (l.hi = t.hi /\ l.lo < t.lo)

\* S32(x * invScale): the quotient cut towards zero
ToS32(x, scale) == IF x < 0 THEN 0 - ((0 - x) \div scale) ELSE x \div scale

CompressedPointTypeWideMutant(vec, scale) ==
    IF DistBelow(vec, scale, 16) THEN 0
    ELSE IF DistBelow(vec, scale, 17) THEN 1
    ELSE IF DistBelow(vec, scale, 19) THEN 2
    ELSE 3

\* the type writeCompressedPoint chooses
CompressedPointType(vec, scale) ==
    IF DistBelow(vec, scale, 15) THEN 0
    ELSE IF DistBelow(vec, scale, 17) THEN 1
    ELSE IF DistBelow(vec, scale, 19) THEN 2
    ELSE 3

\* BitStream::setCompressionPoint(p)
SetCompressionPoint(s, p) == [ mCompressPoint |-> p ] @@ s

\* Stream::write(F32) and Stream::read(F32*) (stream.h): the four bytes of the
\* value, followed by the byte behind it, which writeBits also loads; a
\* coordinate stands for its own bit pattern
WriteF32(s, f) == WriteBits(s, 32, LEBytes(f) \o << 255 >>)
ReadF32(s, junk) ==
    LET r == ReadBits(s, 32, << 0, 0, 0, 0 >>, junk)
    IN  [ s |-> r.s, ret |-> LEValue(r.dst) ]

\* BitStream::writeCompressedPoint(p, scale)
WriteCompressedPoint(s, p, scale) ==
    LET vec  == VecSub(p, s.mCompressPoint)
        type == CompressedPointType(vec, scale)
        s1   == WriteInt(s, type, 2)
        bits == gBitCounts[type + 1]
    IN  IF type # 3
        THEN WriteSignedInt(
               WriteSignedInt(
                 WriteSignedInt(s1, ToS32(vec[1], scale), bits),
                 ToS32(vec[2], scale), bits),
               ToS32(vec[3], scale), bits)
        ELSE WriteF32(WriteF32(WriteF32(s1, p[1]), p[2]), p[3])

\* BitStream::readCompressedPoint(p, scale): the stream and the point
ReadCompressedPoint(s, scale, junk) ==
    LET t == ReadInt(s, 2, junk)
    IN  IF t.ret = 3
        THEN LET x == ReadF32(t.s, junk)
                 y == ReadF32(x.s, junk)
                 z == ReadF32(y.s, junk)
             IN  [ s |-> z.s, p |-> << x.ret, y.ret, z.ret >> ]
        ELSE LET bits == gBitCounts[t.ret + 1]
                 x    == ReadSignedInt(t.s, bits, junk)
                 y    == ReadSignedInt(x.s, bits, junk)
                 z    == ReadSignedInt(y.s, bits, junk)
             IN  [ s |-> z.s,
                   p |-> << s.mCompressPoint[1] + x.ret * scale,
                            s.mCompressPoint[2] + y.ret * scale,
                            s.mCompressPoint[3] + z.ret * scale >> ]

\* the scales handed to both sides
Scales == { 1, MaxScale }

\* the anchors both streams are given
Anchors == { << 0, 0, 0 >>, << 5, -7, 11 >> }

\* the distance in units at which type k ends
TypeEnd(k, scale) == Pow2(15 + 2 * k) * scale

\* offsets from the anchor along x: around 0 and on both sides of every type's end
OffsetsX(scale) ==
    { 0, -1, scale + 1 }
      \cup { sgn * (TypeEnd(k, scale) - d) : sgn \in { -1, 1 }, k \in 0..2, d \in { 0, 1 } }

\* offsets from the anchor along y and z
OffsetsY(scale) == { 0, 2, 1 - TypeEnd(0, scale), TypeEnd(1, scale) - 1 }
OffsetsZ(scale) == { 0, -1, TypeEnd(2, scale) - 1 }

\* a writer and a reader bound to the same memory, with the same anchor
InitPoint ==
    /\ kind = "fixed"
    /\ \E a \in Anchors :
          /\ stream = SetCompressionPoint(NewBitStream(Filled(MaxPointBuf, 255), MaxPointBuf, -1), a)
          /\ peer = stream
    /\ mMinSpace = 0
    /\ wScratch = NoBuffer
    /\ rScratch = NoBuffer
    /\ last = NoOp
    /\ nops = 0
    /\ g_huffProcessor = NewHuffmanProcessor

PtWriteCompressedPoint ==
    /\ last.op = "init"
    /\ \E scale \in Scales :
         \E x \in OffsetsX(scale), y \in OffsetsY(scale), z \in OffsetsZ(scale) :
           LET a == stream.mCompressPoint
               p == << a[1] + x, a[2] + y, a[3] + z >>
               s == WriteCompressedPoint(stream, p, scale)
           IN  /\ stream' = s
               /\ peer' = [ peer EXCEPT !.dataPtr = s.dataPtr ]
               /\ last' = [ op |-> "writeCompressedPoint", n |-> scale,
                            val |-> CompressedPointType(VecSub(p, a), scale), src |-> p,
                            pre |-> stream, dst |-> << >>, ret |-> 0, junk |-> 0 ]
    /\ nops' = nops + 1
    /\ UNCHANGED <<kind, mMinSpace, wScratch, rScratch, g_huffProcessor>>

\* the reader reads the point with the scale the writer used
PtReadCompressedPoint ==
    /\ last.op = "writeCompressedPoint"
    /\ LET r == ReadCompressedPoint(peer, last.n, 0)
       IN  /\ peer' = r.s
           /\ last' = [ last EXCEPT !.op = "readCompressedPoint", !.pre = peer,
                                    !.dst = r.p, !.ret = BitOf(peer.dataPtr, 0)
                                                         + 2 * BitOf(peer.dataPtr, 1) ]
    /\ UNCHANGED <<kind, stream, mMinSpace, wScratch, rScratch, nops, g_huffProcessor>>

NextPoint == PtWriteCompressedPoint \/ PtReadCompressedPoint

SpecPoint == InitPoint /\ [][NextPoint]_vars

IsReadPoint == last.op = "readCompressedPoint" /\ ~stream.error /\ ~peer.error

\* the type the claim gives a point: by dist = |p - anchor| / scale
ClaimedType(vec, scale) ==
    IF DistBelow(vec, scale, 15) THEN 0
    ELSE IF DistBelow(vec, scale, 17) THEN 1
    ELSE IF DistBelow(vec, scale, 19) THEN 2
    ELSE 3

\* C12: after writeCompressedPoint and readCompressedPoint with the same anchor
\* and scale, the two type bits on the wire are 0/1/2/3 for dist below 2^15 /
\* 2^17 / 2^19 / otherwise; for types 0..2 every truncated component is below
\* 2^15 / 2^17 / 2^19 in magnitude and the point read is within scale of the
\* point written on every axis; for type 3 the point read is the point written
C12_CompressedPoint ==
    IsReadPoint =>
        LET vec  == VecSub(last.src, stream.mCompressPoint)
            type == ClaimedType(vec, last.n)
        IN  /\ last.ret = type
            /\ type # 3 =>
                 \A i \in 1..3 :
                    /\ Abs(ToS32(vec[i], last.n)) < Pow2(gBitCounts[type + 1] - 1)
                    /\ Abs(last.dst[i] - last.src[i]) <= last.n
            /\ type = 3 => last.dst = last.src

\* a point of type 1 off the axes, away from the anchor, was cut by the scale
\* and read back
C12_Witness ==
    /\ IsReadPoint /\ last.ret = 1 /\ last.n = MaxScale
    /\ last.dst # last.src /\ last.src[2] # stream.mCompressPoint[2]

=============================================================================
